---- MODULE Spec2Model ----
(***************************************************************************)
(* A model of pyprophet's cross-validation orchestration                   *)
(* (pyprophet.py, HolyGostQuery._learn) and of the numeric routines of     *)
(* stats.py (find_nearest_matches, qvalue, pemp, pi0est,                   *)
(* posterior_chromatogram_hypotheses_fast).                                *)
(*                                                                         *)
(* Real numbers are exact rationals: a record [n, d] stands for n/d, and   *)
(* d = 0 stands for the IEEE result of a division by zero (NaN or inf).    *)
(***************************************************************************)
EXTENDS Integers, Sequences, FiniteSets, TLC

VARIABLES
    \* ---- HolyGostQuery._learn / _learn_and_apply ----
    pc,                      \* position in _learn_and_apply
    num_iter,                \* CONFIG "xeval.num_iter" as configured
    neval,                   \* the local neval (counted down by the parallel path)
    num_processes,           \* CONFIG "num_processes"
    stat_best,               \* CONFIG "semi_supervised_learner.stat_best"
    use_best,                \* CONFIG "semi_supervised_learner.use_best"
    k,                       \* number of completed iterations of the sequential loop
    ws,                      \* list of weight vectors
    all_test_target_scores,
    all_test_decoy_scores,
    ttt_scores,              \* local variable, unbound before the first iteration
    ttd_scores,
    calls,                   \* outcomes of the learn_randomized invocations, in task order
    batches,                 \* sizes of the pool.map batches, in order
    final_classifier,        \* what averaged_learner returned
    returned,                \* the tuple _learn returned
    scored_table,            \* whether _build_result produced a scored table
    \* ---- one call of a routine of stats.py ----
    fn,                      \* the routine called
    args,                    \* its arguments
    ret,                     \* its outcome once it has run
    \* ---- the Scorer objects of pyprophet.py ----
    scorer,                  \* the Scorer built by _build_result
    getstate_data,           \* the dictionary __getstate__ returned last
    loaded_scorer            \* the Scorer restored by __setstate__

learn_vars == <<pc, num_iter, neval, num_processes, stat_best, use_best, k, ws,
                all_test_target_scores, all_test_decoy_scores, ttt_scores,
                ttd_scores, calls, batches, final_classifier, returned,
                scored_table>>

stat_vars == <<fn, args, ret>>

scorer_vars == <<scorer, getstate_data, loaded_scorer>>

vars == <<learn_vars, stat_vars, scorer_vars>>

(***************************************************************************)
(* Bounds                                                                  *)
(***************************************************************************)
MaxIter == 3
MaxProc == 3
MaxQuery == 3      \* longest query array handed to find_nearest_matches
MaxPValues == 3    \* longest p-value array handed to qvalue
MaxPi0P == 2       \* longest p-value array handed to pi0est
MaxStat == 3       \* longest target or decoy sample handed to pemp
MaxRows == 3       \* most rows of a table handed to posterior_chromatogram_hypotheses_fast

(***************************************************************************)
(* Generic helpers                                                         *)
(***************************************************************************)
\* A name that may hold no value yet is the empty set, or the singleton of its value.
Unbound == {}

None == {}

Some(v) == {v}

ValueOf(o) == CHOOSE v \in o : TRUE

Range(s) == {s[i] : i \in DOMAIN s}

BagOf(s) == [x \in Range(s) |-> Cardinality({i \in DOMAIN s : s[i] = x})]

Last(s) == s[Len(s)]

Max(a, b) == IF a >= b THEN a ELSE b

Min(a, b) == IF a <= b THEN a ELSE b

RECURSIVE Concat(_)
Concat(ss) == IF ss = <<>> THEN <<>> ELSE Head(ss) \o Concat(Tail(ss))

(***************************************************************************)
(* learn_randomized: one randomized train/apply iteration.  It returns     *)
(* (held-out target scores, held-out decoy scores, weight vector) or       *)
(* raises.  A weight vector is a one-dimensional array.                    *)
(***************************************************************************)
Array1(data) == [shape |-> <<Len(data)>>, data |-> data]

IterationResults ==
    { [ok |-> TRUE, t |-> <<5>>,    d |-> <<1>>,    w |-> Array1(<<1, 2>>)],
      [ok |-> TRUE, t |-> <<6, 7>>, d |-> <<2, 3>>, w |-> Array1(<<3, 4>>)],
      [ok |-> TRUE, t |-> <<8>>,    d |-> <<>>,     w |-> Array1(<<5, 6>>)] }

IterationFailure == [ok |-> FALSE]

learn_randomized == IterationResults \cup {IterationFailure}

\* ndarray.flatten(): a one-dimensional copy of the data
flatten(a) == [shape |-> <<Len(a.data)>>, data |-> a.data]

\* averaged_learner(ws): the classifier holding the component-wise mean of ws,
\* kept as the list it averages
averaged_learner(w_list) == [averaged |-> w_list]

(***************************************************************************)
(* HolyGostQuery._learn                                                    *)
(***************************************************************************)
LearnInit ==
    /\ pc = "loop"
    /\ num_iter \in 0..MaxIter
    /\ neval = num_iter
    /\ num_processes \in 1..MaxProc
    /\ stat_best \in BOOLEAN
    /\ use_best \in BOOLEAN
    /\ k = 0
    /\ ws = <<>>
    /\ all_test_target_scores = <<>>
    /\ all_test_decoy_scores = <<>>
    /\ ttt_scores = Unbound
    /\ ttd_scores = Unbound
    /\ calls = <<>>
    /\ batches = <<>>
    /\ final_classifier = None
    /\ returned = None
    /\ scored_table = FALSE

StatIdle == fn = None /\ args = None /\ ret = None

ScorerIdle == scorer = None /\ getstate_data = None /\ loaded_scorer = None

\* for k in range(neval): one pass of the sequential loop
SequentialIteration ==
    /\ pc = "loop"
    /\ num_processes = 1
    /\ k < neval
    /\ \E r \in learn_randomized :
        /\ calls' = Append(calls, r)
        /\ IF r.ok
           THEN /\ ttt_scores' = Some(r.t)
                /\ ttd_scores' = Some(r.d)
                /\ all_test_target_scores' = all_test_target_scores \o r.t
                /\ all_test_decoy_scores' = all_test_decoy_scores \o r.d
                /\ ws' = Append(ws, flatten(r.w))
                /\ k' = k + 1
                /\ pc' = pc
           ELSE /\ pc' = "raised"
                /\ UNCHANGED <<ttt_scores, ttd_scores, all_test_target_scores,
                               all_test_decoy_scores, ws, k>>
    /\ UNCHANGED <<num_iter, neval, num_processes, stat_best, use_best, batches,
                   final_classifier, returned, scored_table, stat_vars, scorer_vars>>

\* A variant of todo_of that always fills a whole batch.
todo_always_full(n, procs) == procs

\* remaining = max(0, neval - num_processes); todo = neval - remaining
todo_of(n, procs) == n - Max(0, n - procs)

\* ttt_scores = [ti for r in res for ti in r[0]]
batch_ttt_scores(res) == Concat([i \in DOMAIN res |-> res[i].t])

\* ttd_scores = [ti for r in res for ti in r[1]]
batch_ttd_scores(res) == Concat([i \in DOMAIN res |-> res[i].d])

\* A variant of batch_ws that keeps only the weights of the batch's last task.
batch_ws_last_only(res) == <<res[Len(res)].w>>

\* [r[2] for r in res]
batch_ws(res) == [i \in DOMAIN res |-> res[i].w]

\* A variant of ParallelBatch that skips the results of failed tasks.
ParallelBatchDroppingFailures ==
    /\ pc = "loop"
    /\ num_processes # 1
    /\ neval # 0
    /\ LET todo == todo_of(neval, num_processes) IN
       \E res \in [1..todo -> learn_randomized] :
        LET good == SelectSeq(res, LAMBDA r : r.ok) IN
        /\ neval' = neval - todo
        /\ calls' = calls \o res
        /\ batches' = Append(batches, todo)
        /\ ttt_scores' = Some(batch_ttt_scores(good))
        /\ ttd_scores' = Some(batch_ttd_scores(good))
        /\ ws' = ws \o batch_ws(good)
        /\ all_test_target_scores' = all_test_target_scores \o ValueOf(ttt_scores')
        /\ all_test_decoy_scores' = all_test_decoy_scores \o ValueOf(ttd_scores')
        /\ pc' = pc
    /\ UNCHANGED <<num_iter, num_processes, stat_best, use_best, k,
                   final_classifier, returned, scored_table, stat_vars, scorer_vars>>

\* while neval: one batch handed to pool.map, which returns the results in task
\* order or re-raises the exception of a failed task
ParallelBatch ==
    /\ pc = "loop"
    /\ num_processes # 1
    /\ neval # 0
    /\ LET todo == todo_of(neval, num_processes) IN
       \E res \in [1..todo -> learn_randomized] :
        /\ neval' = neval - todo
        /\ calls' = calls \o res
        /\ batches' = Append(batches, todo)
        /\ IF \A i \in 1..todo : res[i].ok
           THEN /\ ttt_scores' = Some(batch_ttt_scores(res))
                /\ ttd_scores' = Some(batch_ttd_scores(res))
                /\ ws' = ws \o batch_ws(res)
                /\ all_test_target_scores' = all_test_target_scores \o ValueOf(ttt_scores')
                /\ all_test_decoy_scores' = all_test_decoy_scores \o ValueOf(ttd_scores')
                /\ pc' = pc
           ELSE /\ pc' = "raised"
                /\ UNCHANGED <<ttt_scores, ttd_scores, all_test_target_scores,
                               all_test_decoy_scores, ws>>
    /\ UNCHANGED <<num_iter, num_processes, stat_best, use_best, k,
                   final_classifier, returned, scored_table, stat_vars, scorer_vars>>

LoopFinished ==
    IF num_processes = 1 THEN k = neval ELSE neval = 0

\* the code after the loops: the stat_best and use_best policies, then
\* averaged_learner and the return
Aggregate ==
    /\ pc = "loop"
    /\ LoopFinished
    /\ IF stat_best /\ ttt_scores = Unbound
       THEN \* NameError: ttt_scores is read before any iteration bound it
            /\ pc' = "raised"
            /\ UNCHANGED <<ws, all_test_target_scores, all_test_decoy_scores,
                           final_classifier, returned>>
       ELSE LET ts == IF stat_best THEN ValueOf(ttt_scores) ELSE all_test_target_scores
                ds == IF stat_best THEN ValueOf(ttd_scores) ELSE all_test_decoy_scores
            IN
            /\ all_test_target_scores' = ts
            /\ all_test_decoy_scores' = ds
            /\ IF use_best /\ ws = <<>>
               THEN \* IndexError: ws[-1] of an empty list
                    /\ pc' = "raised"
                    /\ UNCHANGED <<ws, final_classifier, returned>>
               ELSE /\ ws' = IF use_best THEN <<Last(ws)>> ELSE ws
                    /\ final_classifier' = Some(averaged_learner(ws'))
                    /\ returned' = Some([classifier |-> averaged_learner(ws'),
                                    target |-> ts, decoy |-> ds])
                    /\ pc' = "returned"
    /\ UNCHANGED <<num_iter, neval, num_processes, stat_best, use_best, k,
                   ttt_scores, ttd_scores, calls, batches, scored_table, stat_vars, scorer_vars>>

\* _learn_and_apply: _build_result runs once _learn has returned
BuildResult ==
    /\ pc = "returned"
    /\ scored_table' = TRUE
    /\ pc' = "done"
    /\ UNCHANGED <<num_iter, neval, num_processes, stat_best, use_best, k, ws,
                   all_test_target_scores, all_test_decoy_scores, ttt_scores,
                   ttd_scores, calls, batches, final_classifier, returned,
                   stat_vars, scorer_vars>>

LearnNext ==
    \/ SequentialIteration
    \/ ParallelBatch
    \/ Aggregate
    \/ BuildResult

Init == LearnInit /\ StatIdle /\ ScorerIdle

Spec == Init /\ [][LearnNext]_vars

(***************************************************************************)
(* Properties of _learn                                                    *)
(***************************************************************************)
Terminal == pc \in {"raised", "returned", "done"}

Returned == pc \in {"returned", "done"}

AllOk(cs) == \A i \in DOMAIN cs : cs[i].ok

RECURSIVE SumSeq(_)
SumSeq(s) == IF s = <<>> THEN 0 ELSE Head(s) + SumSeq(Tail(s))

DefaultPolicies == ~stat_best /\ ~use_best

\* C1: with N >= 1, under stat_best the returned score samples are the held-out
\* scores of the single last iteration, and under use_best the classifier is
\* built from the last iteration's weight vector alone.
C1_KeepOnlyLastIteration ==
    (Returned /\ num_iter >= 1) =>
        /\ stat_best => /\ ValueOf(returned).target = Last(calls).t
                        /\ ValueOf(returned).decoy = Last(calls).d
        /\ use_best =>
             final_classifier = Some(averaged_learner(<<flatten(Last(calls).w)>>))

\* C2: under the default policies the list handed to averaged_learner and the
\* pooled score samples are, as multisets, those of the sequential loop over the
\* same per-iteration results, whatever the number of worker processes.
C2_OrderInvariantAggregation ==
    (Returned /\ DefaultPolicies) =>
        /\ Len(ValueOf(final_classifier).averaged) = num_iter
        /\ BagOf(ValueOf(final_classifier).averaged)
             = BagOf([i \in DOMAIN calls |-> flatten(calls[i].w)])
        /\ BagOf(ValueOf(returned).target)
             = BagOf(Concat([i \in DOMAIN calls |-> calls[i].t]))
        /\ BagOf(ValueOf(returned).decoy)
             = BagOf(Concat([i \in DOMAIN calls |-> calls[i].d]))

C2_Witness ==
    /\ pc = "done"
    /\ DefaultPolicies
    /\ num_processes > 1
    /\ Len(batches) >= 2
    /\ \E i, j \in DOMAIN calls : calls[i] # calls[j]

\* C3 as stated: for every N, N = 0 included, a run whose iterations all succeed
\* ends after exactly N invocations with a classifier and score samples.
C3_ProducesResultForEveryN ==
    (Terminal /\ AllOk(calls)) =>
        /\ Returned
        /\ Len(calls) = num_iter
        /\ final_classifier # None
        /\ returned # None

\* C3 amended: for every N >= 1 and every worker count, learn_randomized is
\* invoked at most N times, in the parallel path in batches of 1..num_processes
\* invocations; the loop can always take its next step; and a run whose
\* iterations all succeed ends after exactly N invocations with a classifier and
\* score samples.
C3_ProducesResultForPositiveN ==
    /\ Len(calls) <= num_iter
    /\ \A i \in DOMAIN batches : batches[i] >= 1 /\ batches[i] <= num_processes
    /\ num_processes # 1 => SumSeq(batches) = Len(calls)
    /\ pc = "loop" => ENABLED (SequentialIteration \/ ParallelBatch \/ Aggregate)
    /\ (Terminal /\ AllOk(calls) /\ num_iter >= 1) =>
        /\ Returned
        /\ Len(calls) = num_iter
        /\ final_classifier # None
        /\ returned # None
        /\ num_processes # 1 => SumSeq(batches) = num_iter

C3_Witness ==
    /\ pc = "done"
    /\ num_iter >= 1
    /\ num_iter < num_processes
    /\ batches = <<num_iter>>

\* C4: once an iteration has failed the run is aborted: no classifier, no score
\* samples and no scored table exist, in that state and ever after.
C4_FailureAborts ==
    (\E i \in DOMAIN calls : ~calls[i].ok) =>
        /\ pc = "raised"
        /\ final_classifier = None
        /\ returned = None
        /\ ~scored_table
        /\ ~ENABLED LearnNext

C4_Witness ==
    /\ pc = "raised"
    /\ num_processes > 1
    /\ \E i, j \in DOMAIN calls : calls[i].ok /\ ~calls[j].ok

(***************************************************************************)
(* The routines of stats.py.  Each is an operator from its arguments to    *)
(* its outcome: [ok |-> TRUE, ...] with what it returns, or                *)
(* [ok |-> FALSE, error |-> ...] when it raises or exits.  A specification *)
(* draws the arguments in its initial state and one action makes the call. *)
(***************************************************************************)
Raise(e) == [ok |-> FALSE, error |-> e]

\* the _learn variables while a routine of stats.py is checked on its own
LearnIdle ==
    /\ pc = "idle"
    /\ num_iter = 0
    /\ neval = 0
    /\ stat_best = FALSE
    /\ use_best = FALSE
    /\ k = 0
    /\ ws = <<>>
    /\ all_test_target_scores = <<>>
    /\ all_test_decoy_scores = <<>>
    /\ ttt_scores = Unbound
    /\ ttd_scores = Unbound
    /\ calls = <<>>
    /\ batches = <<>>
    /\ final_classifier = None
    /\ returned = None
    /\ scored_table = FALSE

IsSorted(s) == \A i \in 1..(Len(s) - 1) : s[i] <= s[i + 1]

SeqsUpTo(S, lo, hi) == UNION {[1..n -> S] : n \in lo..hi}

Abs(a) == IF a >= 0 THEN a ELSE -a

\* Python's y[i:j] for 0 <= i <= j
Slice(y, i, j) == SubSeq(y, i + 1, Min(j, Len(y)))

\* int(math.ceil(a / b)) for a >= 0, b > 0
CeilDiv(a, b) == (a + b - 1) \div b

(***************************************************************************)
(* find_nearest_matches                                                    *)
(***************************************************************************)
\* optimized.find_nearest_matches: for each query value the (0-based) index of the
\* closest value of the sorted reference array, the lower index on a tie
nearest_index(x, q) ==
    CHOOSE j \in 0..(Len(x) - 1) :
        \A l \in 0..(Len(x) - 1) :
            \/ Abs(x[j + 1] - q) < Abs(x[l + 1] - q)
            \/ (Abs(x[j + 1] - q) = Abs(x[l + 1] - q) /\ j <= l)

_find_nearest_matches(x, y) == [i \in DOMAIN y |-> nearest_index(x, y[i])]

\* parts = [(x, y[i:i + batch_size]) for i in range(0, len(y), batch_size)],
\* for batch_size > 0
RECURSIVE parts_from(_, _, _)
parts_from(y, i, batch_size) ==
    IF i >= Len(y) THEN <<>>
    ELSE <<Slice(y, i, i + batch_size)>> \o parts_from(y, i + batch_size, batch_size)

find_nearest_matches(x, y, procs) ==
    IF procs > 1
    THEN LET batch_size == CeilDiv(Len(y), procs) IN
         IF batch_size = 0
         THEN Raise("ValueError")    \* range() arg 3 must not be zero
         ELSE LET parts == parts_from(y, 0, batch_size)
                  res == [i \in DOMAIN parts |-> _find_nearest_matches(x, parts[i])]
              IN [ok |-> TRUE, value |-> Concat(res), parts |-> parts]
    ELSE [ok |-> TRUE, value |-> _find_nearest_matches(x, y), parts |-> <<y>>]

NearestValues == 0..3

SortedReferences == {x \in SeqsUpTo(NearestValues, 1, 2) : IsSorted(x)}

FnmInit ==
    /\ LearnIdle
    /\ ScorerIdle
    /\ num_processes \in 1..MaxProc
    /\ fn = "find_nearest_matches"
    /\ args \in [x : SortedReferences, y : SeqsUpTo(NearestValues, 0, MaxQuery)]
    /\ ret = None

FnmCall ==
    /\ fn = "find_nearest_matches"
    /\ ret = None
    /\ ret' = Some(find_nearest_matches(args.x, args.y, num_processes))
    /\ UNCHANGED <<learn_vars, scorer_vars, fn, args>>

SpecFnm == FnmInit /\ [][FnmCall]_vars

\* C5: for num_processes > 1 the parallel lookup cuts y into contiguous chunks
\* that cover it once in order and returns what the sequential lookup returns,
\* for every y, the empty one included.
C5_ParallelEqualsSequential ==
    (ret # None /\ num_processes > 1) =>
        /\ ValueOf(ret).ok
        /\ Concat(ValueOf(ret).parts) = args.y
        /\ ValueOf(ret).value = _find_nearest_matches(args.x, args.y)

\* The same for a query array that is not empty.
C5_ParallelEqualsSequentialNonEmpty ==
    (ret # None /\ num_processes > 1 /\ args.y # <<>>) =>
        /\ ValueOf(ret).ok
        /\ Concat(ValueOf(ret).parts) = args.y
        /\ ValueOf(ret).value = _find_nearest_matches(args.x, args.y)

(***************************************************************************)
(* Exact arithmetic.  [n |-> a, d |-> b] is a/b with b >= 0; b = 0 is what *)
(* numpy returns for a division by zero (nan for 0/0, inf otherwise).      *)
(***************************************************************************)
Rat(a, b) == [n |-> a, d |-> b]

IsNumber(q) == q.d > 0

RatLe(a, b) == IsNumber(a) /\ IsNumber(b) /\ a.n * b.d <= b.n * a.d

RatLt(a, b) == IsNumber(a) /\ IsNumber(b) /\ a.n * b.d < b.n * a.d

RatEq(a, b) == IsNumber(a) /\ IsNumber(b) /\ a.n * b.d = b.n * a.d

\* np.minimum(a, b): a nan operand gives nan
RatMinimum(a, b) ==
    IF ~IsNumber(a) THEN a
    ELSE IF ~IsNumber(b) THEN b
    ELSE IF a.n * b.d <= b.n * a.d THEN a ELSE b

RatOne == Rat(1, 1)

RECURSIVE Pow(_, _)
Pow(b, e) == IF e = 0 THEN 1 ELSE b * Pow(b, e - 1)

\* The p-values of the model are multiples of 1/PDen.
PDen == 4

(***************************************************************************)
(* qvalue                                                                  *)
(***************************************************************************)
\* np.argsort(p): the 0-based indices of p in ascending order of value (equal
\* values in index order)
argsort(p) ==
    LET m == Len(p)
        pos(i) == Cardinality({j \in 1..m : p[j] < p[i] \/ (p[j] = p[i] /\ j < i)})
    IN [r \in 1..m |-> (CHOOSE i \in 1..m : pos(i) = r - 1) - 1]

\* scipy.stats.rankdata(p, "max")
rankdata_max(p) == [i \in DOMAIN p |-> Cardinality({j \in DOMAIN p : p[j] <= p[i]})]

\* A variant of sweep_range: the descending sweep range(m - 2, -1, -1).
sweep_range_descending(m) == [j \in 1..Max(m - 1, 0) |-> m - 1 - j]

\* range(m - 2, 1, 1): m - 2, m - 1, ..., 0, which is empty once m - 2 >= 1
sweep_range(m) == [j \in 1..Max(1 - (m - 2), 0) |-> m - 2 + j - 1]

\* Python's u[i] for a list index i that may be negative
PyIndexOk(u, i) == i >= -Len(u) /\ i < Len(u)

PyIndex(u, i) == IF i >= 0 THEN u[i + 1] ELSE u[Len(u) + i + 1]

\* for i in <is>: qvals[u[i]] = np.minimum(qvals[u[i]], qvals[u[i + 1]])
RECURSIVE sweep(_, _, _)
sweep(qvals, u, is) ==
    IF is = <<>> THEN [ok |-> TRUE, qvals |-> qvals]
    ELSE LET i == Head(is) IN
         IF ~PyIndexOk(u, i) \/ ~PyIndexOk(u, i + 1)
         THEN Raise("IndexError")
         ELSE LET a == PyIndex(u, i) + 1
                  b == PyIndex(u, i + 1) + 1
              IN sweep([qvals EXCEPT ![a] = RatMinimum(qvals[a], qvals[b])], u, Tail(is))

\* qvalue(p, pi0, pfdr) for an array p of finite p-values, p[i] standing for
\* p[i]/PDen, and pi0 a rational
qvalue(p, pi0, pfdr) ==
    IF \E i \in DOMAIN p : p[i] < 0 \/ p[i] > PDen
    THEN Raise("SystemExit")        \* p-values not in valid range [0,1]
    ELSE IF pi0.n < 0 \/ pi0.n > pi0.d
    THEN Raise("SystemExit")        \* pi0 not in valid range [0,1]
    ELSE
    LET m == Len(p)
        u == argsort(p)
        v == rankdata_max(p)
        qvals0 == [i \in 1..m |->
                     IF pfdr
                     THEN Rat(pi0.n * m * p[i] * Pow(PDen, m),
                              pi0.d * PDen * v[i] * (Pow(PDen, m) - Pow(PDen - p[i], m)))
                     ELSE Rat(pi0.n * m * p[i], pi0.d * PDen * v[i])]
        top == u[m] + 1
        qvals1 == [qvals0 EXCEPT ![top] = RatMinimum(qvals0[top], RatOne)]
        swept == sweep(qvals1, u, sweep_range(m))
    IN IF ~swept.ok THEN swept
       \* qvals_out is the caller's array p, which the result overwrites
       ELSE [ok |-> TRUE, value |-> swept.qvals, p_after |-> swept.qvals]

Pi0Values == {Rat(1, 2), Rat(1, 1)}

QvalueInit ==
    /\ LearnIdle
    /\ ScorerIdle
    /\ num_processes = 1
    /\ fn = "qvalue"
    /\ args \in [p : SeqsUpTo(0..PDen, 1, MaxPValues), pi0 : Pi0Values, pfdr : BOOLEAN]
    /\ ret = None

QvalueCall ==
    /\ fn = "qvalue"
    /\ ret = None
    /\ ret' = Some(qvalue(args.p, args.pi0, args.pfdr))
    /\ UNCHANGED <<learn_vars, scorer_vars, fn, args>>

SpecQvalue == QvalueInit /\ [][QvalueCall]_vars

\* C6: in the array qvalue returns, an entry with a smaller p-value never has a
\* larger q-value than an entry with a larger p-value, and the q-value of the
\* largest p-value is at most 1 (entries that are not numbers are left out).
C6_QvaluesMonotone ==
    (ret # None /\ ValueOf(ret).ok) =>
        LET q == ValueOf(ret).value
            p == args.p
        IN /\ \A i, j \in DOMAIN p :
                (p[i] < p[j] /\ IsNumber(q[i]) /\ IsNumber(q[j])) => RatLe(q[i], q[j])
           /\ \A i \in DOMAIN p :
                ((\A j \in DOMAIN p : p[j] <= p[i]) /\ IsNumber(q[i])) => RatLe(q[i], RatOne)

(***************************************************************************)
(* posterior_chromatogram_hypotheses_fast                                  *)
(***************************************************************************)
RECURSIVE GCD(_, _)
GCD(a, b) == IF b = 0 THEN a ELSE GCD(b, a % b)

RatAdd(a, b) ==
    LET n == a.n * b.d + b.n * a.d
        d == a.d * b.d
        g == GCD(Abs(n), d)
    IN IF g = 0 THEN Rat(0, 0) ELSE Rat(n \div g, d \div g)

RECURSIVE RatSum(_)
RatSum(qs) == IF qs = <<>> THEN Rat(0, 1) ELSE RatAdd(Head(qs), RatSum(Tail(qs)))

RECURSIVE Product(_)
Product(s) == IF s = <<>> THEN 1 ELSE Head(s) * Product(Tail(s))

\* optimized.single_chromatogram_hypothesis_fast(scores, prior_chrom_null,
\* prior_pg_true): scores[i] (over PDen) is the probability that peak i is false.
\* Entry 0 of the result is the posterior of "no peak is true", entry i that of
\* "peak i is the true one": prior times likelihood, normalised over the k + 1
\* hypotheses.
single_chromatogram_hypothesis_fast(scores, prior_chrom_null, prior_pg_true) ==
    LET kk == Len(scores)
        others(i) == Product([j \in 1..kk |-> IF j = i THEN PDen - scores[j] ELSE scores[j]])
        w0 == prior_chrom_null.n * prior_pg_true.d * Product(scores)
        w == [i \in 1..kk |-> prior_pg_true.n * prior_chrom_null.d * others(i)]
        total == w0 + SumSeq(w)
    IN <<Rat(w0, total)>> \o [i \in 1..kk |-> Rat(w[i], total)]

\* A variant of prior_pg_true that also counts the null hypothesis.
prior_pg_true_over_all_hypotheses(prior_chrom_null, n) ==
    Rat(prior_chrom_null.d - prior_chrom_null.n, prior_chrom_null.d * (n + 1))

\* prior_pg_true = (1.0 - prior_chrom_null) / len(scores)
prior_pg_true(prior_chrom_null, n) ==
    Rat(prior_chrom_null.d - prior_chrom_null.n, prior_chrom_null.d * n)

\* A variant of h_entries that keeps the null hypothesis too.
h_entries_with_null(rr) == rr

\* rr[1:]
h_entries(rr) == Tail(rr)

\* "Actual computation for a single transition group" and "Last cycle": the
\* scores collected so far are evaluated and appended to the two result lists
evaluate_group(st, prior_chrom_null) ==
    IF st.scores = <<>>
    THEN Raise("ZeroDivisionError")
    ELSE LET pt == prior_pg_true(prior_chrom_null, Len(st.scores))
             rr == single_chromatogram_hypothesis_fast(st.scores, prior_chrom_null, pt)
         IN [st EXCEPT
               !.final_result = @ \o h_entries(rr),
               !.final_result_h0 = @ \o [i \in 1..Len(st.scores) |-> rr[1]],
               !.evaluated = Append(@, [scores |-> st.scores, null |-> prior_chrom_null,
                                        pg_true |-> pt])]

\* for i in range(tg_ids.shape[0]), from row i (1-based) on
RECURSIVE chromatogram_loop(_, _, _, _, _)
chromatogram_loop(tg_ids, pp_values, prior_chrom_null, i, st) ==
    IF i > Len(tg_ids) THEN st
    ELSE LET id_ == tg_ids[i]
             st1 == IF id_ # st.current_tg_id
                    THEN [evaluate_group(st, prior_chrom_null) EXCEPT
                            !.scores = <<>>, !.current_tg_id = id_]
                    ELSE st
             st2 == [st1 EXCEPT !.scores = Append(@, PDen - pp_values[i])]
         IN chromatogram_loop(tg_ids, pp_values, prior_chrom_null, i + 1, st2)

posterior_chromatogram_hypotheses_fast(tg_ids, pp_values, prior_chrom_null) ==
    IF tg_ids = <<>>
    THEN Raise("IndexError")      \* tg_ids[0] of an empty table
    ELSE LET st0 == [ok |-> TRUE, current_tg_id |-> tg_ids[1], scores |-> <<>>,
                     final_result |-> <<>>, final_result_h0 |-> <<>>,
                     evaluated |-> <<>>]
             st == chromatogram_loop(tg_ids, pp_values, prior_chrom_null, 1, st0)
             last == evaluate_group(st, prior_chrom_null)
         IN [ok |-> TRUE, h |-> last.final_result, h0 |-> last.final_result_h0,
             evaluated |-> last.evaluated]

TgIds == 1..3

\* peak-group posteriors (over PDen) strictly below 1, null priors above 0
PgScores == {0, 1, PDen - 1}

NullPriors == {Rat(1, 4), Rat(1, 2), Rat(1, 1)}

ChromTables ==
    UNION { [tg_num_id : {t \in [1..n -> TgIds] : IsSorted(t)},
             pg_score : [1..n -> PgScores]] : n \in 0..MaxRows }

ChromInit ==
    /\ LearnIdle
    /\ ScorerIdle
    /\ num_processes = 1
    /\ fn = "posterior_chromatogram_hypotheses_fast"
    /\ args \in [df : ChromTables, prior_chrom_null : NullPriors]
    /\ ret = None

ChromCall ==
    /\ fn = "posterior_chromatogram_hypotheses_fast"
    /\ ret = None
    /\ ret' = Some(posterior_chromatogram_hypotheses_fast(
                     args.df.tg_num_id, args.df.pg_score, args.prior_chrom_null))
    /\ UNCHANGED <<learn_vars, scorer_vars, fn, args>>

SpecChrom == ChromInit /\ [][ChromCall]_vars

\* the rows of the group of row i, in row order
GroupRows(tg_ids, i) == SelectSeq([j \in DOMAIN tg_ids |-> j], LAMBDA j : tg_ids[j] = tg_ids[i])

\* the k + 1 hypothesis probabilities of the group of row i, computed from the
\* rows of that group alone
GroupHypotheses(df, null, i) ==
    LET rows == GroupRows(df.tg_num_id, i)
        kk == Len(rows)
    IN single_chromatogram_hypothesis_fast(
           [r \in 1..kk |-> PDen - df.pg_score[rows[r]]], null,
           Rat(null.d - null.n, null.d * kk))

PositionInGroup(tg_ids, i) == Cardinality({j \in 1..i : tg_ids[j] = tg_ids[i]})

\* C7: for a non-empty table sorted by group id both results have one entry per
\* row, in row order; entry i of the first is the hypothesis probability of row
\* i within its own group, entry i of the second the null probability of that
\* group; every group is evaluated exactly once.
C7_OneEntryPerRow ==
    (ret # None /\ args.df.tg_num_id # <<>>) =>
        LET r == ValueOf(ret)
            df == args.df
            n == Len(df.tg_num_id)
        IN /\ r.ok
           /\ Len(r.h) = n
           /\ Len(r.h0) = n
           /\ Len(r.evaluated) = Cardinality(Range(df.tg_num_id))
           /\ \A i \in 1..n :
                LET rr == GroupHypotheses(df, args.prior_chrom_null, i) IN
                /\ r.h[i] = rr[1 + PositionInGroup(df.tg_num_id, i)]
                /\ r.h0[i] = rr[1]
           /\ \A i, j \in 1..n : df.tg_num_id[i] = df.tg_num_id[j] => r.h0[i] = r.h0[j]

C7_Witness ==
    /\ ret # None
    /\ ValueOf(ret).ok
    /\ Cardinality(Range(args.df.tg_num_id)) >= 2
    /\ \E i, j \in DOMAIN args.df.tg_num_id :
         /\ i # j
         /\ args.df.tg_num_id[i] = args.df.tg_num_id[j]
         /\ ValueOf(ret).h[i] # ValueOf(ret).h[j]

argsort_descending_reversing_ties(a) ==
    LET n == Len(a)
        pos(i) == Cardinality({j \in 1..n : a[j] > a[i] \/ (a[j] = a[i] /\ j > i)})
    IN [r \in 1..n |-> (CHOOSE i \in 1..n : pos(i) = r - 1) - 1]

\* np.argsort(-a, kind="mergesort"): the 0-based indices of a in descending order
\* of value, equal values in index order (mergesort is stable)
argsort_descending_stable(a) ==
    LET n == Len(a)
        pos(i) == Cardinality({j \in 1..n : a[j] > a[i] \/ (a[j] = a[i] /\ j < i)})
    IN [r \in 1..n |-> (CHOOSE i \in 1..n : pos(i) = r - 1) - 1]

\* np.where(v)[0]: the 0-based positions of the True entries, ascending
where_true(v) ==
    LET idx == SelectSeq([i \in DOMAIN v |-> i], LAMBDA i : v[i])
    IN [j \in DOMAIN idx |-> idx[j] - 1]

\* np.floor(scipy.stats.rankdata(-stat)).astype(int) - 1: the average rank of
\* each entry in descending order, rounded down, 0-based
floor_rank_descending(stat) ==
    [i \in DOMAIN stat |->
        LET greater == Cardinality({j \in DOMAIN stat : stat[j] > stat[i]})
            equal == Cardinality({j \in DOMAIN stat : stat[j] = stat[i]})
        IN (2 * greater + equal + 1) \div 2 - 1]

\* pemp(stat, stat0); entry i of the result stands for value[i]/m0
pemp(stat, stat0) ==
    IF stat0 = <<>> \/ stat = <<>>
    THEN Raise("AssertionError")
    ELSE
    LET m == Len(stat)
        m0 == Len(stat0)
        statc == stat \o stat0
        v == [i \in 1..(m + m0) |-> i <= m]
        perm == argsort_descending_stable(statc)
        vs == [r \in 1..(m + m0) |-> v[perm[r] + 1]]
        u == where_true(vs)
        p == [j \in 1..m |-> u[j] - (j - 1)]
        ranks == floor_rank_descending(stat)
        picked == [i \in 1..m |-> p[ranks[i] + 1]]
    IN [ok |-> TRUE, m0 |-> m0,
        value |-> [i \in 1..m |-> IF picked[i] <= 1 THEN 1 ELSE picked[i]]]

StatValues == 0..2

PempInit ==
    /\ LearnIdle
    /\ ScorerIdle
    /\ num_processes = 1
    /\ fn = "pemp"
    /\ args \in [stat : SeqsUpTo(StatValues, 0, MaxStat),
                 stat0 : SeqsUpTo(StatValues, 0, MaxStat)]
    /\ ret = None

PempCall ==
    /\ fn = "pemp"
    /\ ret = None
    /\ ret' = Some(pemp(args.stat, args.stat0))
    /\ UNCHANGED <<learn_vars, scorer_vars, fn, args>>

SpecPemp == PempInit /\ [][PempCall]_vars

CountAtLeast(stat0, x) == Cardinality({j \in DOMAIN stat0 : stat0[j] >= x})

CountAbove(stat0, x) == Cardinality({j \in DOMAIN stat0 : stat0[j] > x})

\* C9 as stated: for non-empty samples, entry i is the fraction of decoys with a
\* score >= the target score, floored at 1/len(stat0), and so lies in
\* [1/len(stat0), 1].
C9_FractionAtLeastAsExtreme ==
    (ret # None /\ args.stat # <<>> /\ args.stat0 # <<>>) =>
        LET r == ValueOf(ret) IN
        /\ r.ok
        /\ Len(r.value) = Len(args.stat)
        /\ \A i \in DOMAIN args.stat :
             /\ r.value[i] = Max(CountAtLeast(args.stat0, args.stat[i]), 1)
             /\ r.value[i] >= 1 /\ r.value[i] <= r.m0

\* C9 amended: entry i is the fraction of decoys with a score strictly greater
\* than the target score, floored at 1/len(stat0), and so lies in
\* [1/len(stat0), 1].
C9_FractionStrictlyMoreExtreme ==
    (ret # None /\ args.stat # <<>> /\ args.stat0 # <<>>) =>
        LET r == ValueOf(ret) IN
        /\ r.ok
        /\ r.m0 = Len(args.stat0)
        /\ Len(r.value) = Len(args.stat)
        /\ \A i \in DOMAIN args.stat :
             /\ r.value[i] = Max(CountAbove(args.stat0, args.stat[i]), 1)
             /\ r.value[i] >= 1 /\ r.value[i] <= r.m0

\* a target tied with two decoys and with another target, and a target below it
C9_Witness ==
    /\ ret # None
    /\ ValueOf(ret).ok
    /\ \E i, j, l \in DOMAIN args.stat :
         /\ i # j
         /\ args.stat[i] = args.stat[j]
         /\ args.stat[l] < args.stat[i]
         /\ CountAtLeast(args.stat0, args.stat[i]) >= 2
         /\ CountAbove(args.stat0, args.stat[i]) < CountAtLeast(args.stat0, args.stat[i])
         /\ ValueOf(ret).value[l] > ValueOf(ret).value[i]

(***************************************************************************)
(* pi0est                                                                  *)
(***************************************************************************)
\* "at least four data points are required": ll > 1 and ll < 4 is rejected
MinGridPoints == 4

RECURSIVE SortAscending(_)
SortAscending(a) ==
    IF a = <<>> THEN <<>>
    ELSE LET i == CHOOSE i \in DOMAIN a : \A j \in DOMAIN a : a[i] <= a[j]
         IN <<a[i]>> \o SortAscending([j \in 1..(Len(a) - 1) |-> IF j < i THEN a[j] ELSE a[j + 1]])

\* np.mean(p >= l) / (1 - l) for l = lam/PDen: count * PDen / (m * (PDen - lam))
pi0_at(p, lam) ==
    Rat(Cardinality({i \in DOMAIN p : p[i] >= lam}) * PDen, Len(p) * (PDen - lam))

\* A variant of pi0est_single that rejects an unsupported method name.
pi0est_single_checking_method(p, lambda_, pi0_method) ==
    IF pi0_method \notin {"smoother", "bootstrap"}
    THEN Raise("SystemExit")
    ELSE IF lambda_.kind = "list"
    THEN Raise("TypeError")
    ELSE [ok |-> TRUE, pi0 |-> RatMinimum(pi0_at(p, lambda_.v[1]), RatOne)]

\* the branch ll == 1: pi0 = np.minimum(np.mean(p >= lambda_)/(1 - lambda_), 1).
\* A list is not an ndarray, so a grid given as a list of any length comes here
\* with ll = 1, and 1 - lambda_ raises TypeError.
pi0est_single(p, lambda_, pi0_method) ==
    IF lambda_.kind = "list"
    THEN Raise("TypeError")
    ELSE [ok |-> TRUE, pi0 |-> RatMinimum(pi0_at(p, lambda_.v[1]), RatOne)]

\* the branch ll > 1.  The value of the smoothing spline at the largest lambda
\* (scipy's UnivariateSpline) and the index np.argmin(mse) picks are left open:
\* spline_last and argmin_mse stand for them.
pi0est_grid(p, lams, pi0_method, spline_last, argmin_mse) ==
    LET pi0 == [l \in DOMAIN lams |-> pi0_at(p, lams[l])] IN
    IF pi0_method = "smoother"
    THEN [ok |-> TRUE, pi0 |-> RatMinimum(spline_last, RatOne)]
    ELSE IF pi0_method = "bootstrap"
    THEN [ok |-> TRUE, pi0 |-> RatMinimum(pi0[argmin_mse], RatOne)]
    ELSE Raise("SystemExit")     \* pi0_method must be one of 'smoother' or 'bootstrap'

\* pi0est(p_values, lambda_, pi0_method, ...): p_values[i] stands for
\* p_values[i]/PDen; lambda_ is [kind, v] with kind "float" (v holds the one
\* value), "ndarray" or "list", the values over PDen
pi0est(p_values, lambda_, pi0_method, spline_last, argmin_mse) ==
    LET p == p_values
        ll == IF lambda_.kind = "ndarray" THEN Len(lambda_.v) ELSE 1
        lams == IF lambda_.kind = "ndarray" THEN SortAscending(lambda_.v) ELSE lambda_.v
    IN
    IF \E i \in DOMAIN p : p[i] < 0 \/ p[i] > PDen
    THEN Raise("SystemExit")      \* p-values not in valid range [0,1]
    ELSE IF ll > 1 /\ ll < MinGridPoints
    THEN Raise("SystemExit")      \* at least four data points are required
    ELSE IF \E l \in DOMAIN lams : lams[l] < 0 \/ lams[l] >= PDen
    THEN Raise("SystemExit")      \* Lambda must be within [0,1)
    ELSE
    LET r == IF ll = 1
             THEN pi0est_single(p, [lambda_ EXCEPT !.v = lams], pi0_method)
             ELSE pi0est_grid(p, lams, pi0_method, spline_last, argmin_mse)
    IN IF ~r.ok THEN r
       ELSE IF r.pi0.n <= 0
       THEN Raise("SystemExit")   \* the estimated pi0 <= 0
       ELSE [ok |-> TRUE, pi0 |-> r.pi0, lambda_ |-> lams]

Pi0PValues == {0, 3, PDen + 1}

LambdaValues == {-1, 1, 2, PDen}

LambdaGrids ==
    [kind : {"float"}, v : [1..1 -> LambdaValues]]
    \cup [kind : {"ndarray", "list"}, v : SeqsUpTo(LambdaValues, 1, MinGridPoints)]

Pi0Methods == {"smoother", "bootstrap", "other"}

SplineOutputs == {Rat(-1, 4), Rat(0, 1), Rat(1, 2), Rat(5, 4)}

Pi0estInit ==
    /\ LearnIdle
    /\ ScorerIdle
    /\ num_processes = 1
    /\ fn = "pi0est"
    /\ args \in [p_values : SeqsUpTo(Pi0PValues, 1, MaxPi0P), lambda_ : LambdaGrids,
                 pi0_method : Pi0Methods]
    /\ ret = None

Pi0estCall ==
    /\ fn = "pi0est"
    /\ ret = None
    /\ \E spline_last \in SplineOutputs, argmin_mse \in 1..MinGridPoints :
         ret' = Some(pi0est(args.p_values, args.lambda_, args.pi0_method,
                            spline_last, argmin_mse))
    /\ UNCHANGED <<learn_vars, scorer_vars, fn, args>>

SpecPi0est == Pi0estInit /\ [][Pi0estCall]_vars

Pi0InvalidInput ==
    \/ Len(args.lambda_.v) \in {2, 3}
    \/ \E i \in DOMAIN args.p_values : args.p_values[i] < 0 \/ args.p_values[i] > PDen
    \/ \E l \in DOMAIN args.lambda_.v : args.lambda_.v[l] < 0 \/ args.lambda_.v[l] >= PDen
    \/ args.pi0_method \notin {"smoother", "bootstrap"}

\* C10: pi0est returns no estimate when the grid has 2 or 3 points, a p-value
\* lies outside [0,1], a lambda lies outside [0,1) or the method name is not
\* supported, whatever the shape of the grid, and never returns a pi0 <= 0.
C10_NoEstimateForInvalidInput ==
    ret # None =>
        /\ Pi0InvalidInput => ~ValueOf(ret).ok
        /\ ValueOf(ret).ok => ValueOf(ret).pi0.n > 0

\* The same without the method name: every other invalid input is rejected.
C10_NoEstimateExceptMethodName ==
    ret # None =>
        /\ (Pi0InvalidInput /\ args.pi0_method \in {"smoother", "bootstrap"})
             => ~ValueOf(ret).ok
        /\ (args.pi0_method \notin {"smoother", "bootstrap"} /\ ValueOf(ret).ok)
             => args.lambda_.kind # "list" /\ Len(args.lambda_.v) = 1
        /\ ValueOf(ret).ok => ValueOf(ret).pi0.n > 0

(***************************************************************************)
(* mean_and_std_dev                                                        *)
(***************************************************************************)
MaxDecoys == 4     \* longest sample handed to mean_and_std_dev

Sign(a) == IF a > 0 THEN 1 ELSE IF a < 0 THEN -1 ELSE 0

\* a/b in lowest terms with b > 0; a division by zero is Rat(1, 0) for inf,
\* Rat(-1, 0) for -inf and Rat(0, 0) for nan
RatNorm(q) ==
    IF q.d = 0 THEN Rat(Sign(q.n), 0)
    ELSE LET g == GCD(Abs(q.n), Abs(q.d)) IN
         Rat(Sign(q.d) * (q.n \div g), Abs(q.d) \div g)

IsNaN(q) == q.d = 0 /\ q.n = 0

\* np.mean(values): the sum over the length, nan (with a warning) for no values
mean(values) == RatNorm(Rat(SumSeq(values), Len(values)))

\* the square of np.std(values, ddof=1): the squared deviations from the mean
\* summed and divided by n - 1, which is nan (with a warning) for n < 2
variance_ddof1(values) ==
    LET n == Len(values)
        sq == [i \in DOMAIN values |-> values[i] * values[i]]
    IN RatNorm(Rat(n * SumSeq(sq) - SumSeq(values) * SumSeq(values), n * (n - 1)))

\* np.std(values, ddof=1), kept as the number it is the square root of
std(values) == [root_of |-> variance_ddof1(values)]

\* mean_and_std_dev(values): it returns for every sample, the empty one included
mean_and_std_dev(values) == [ok |-> TRUE, mu |-> mean(values), nu |-> std(values)]

DecoyScoreValues == 0..2

MeanStdInit ==
    /\ LearnIdle
    /\ ScorerIdle
    /\ num_processes = 1
    /\ fn = "mean_and_std_dev"
    /\ args \in [values : SeqsUpTo(DecoyScoreValues, 0, MaxDecoys)]
    /\ ret = None

MeanStdCall ==
    /\ fn = "mean_and_std_dev"
    /\ ret = None
    /\ ret' = Some(mean_and_std_dev(args.values))
    /\ UNCHANGED <<learn_vars, scorer_vars, fn, args>>

SpecMeanStd == MeanStdInit /\ [][MeanStdCall]_vars

\* C11: an empty decoy sample is rejected with an error: mean_and_std_dev does
\* not return a mean or a standard deviation that is nan for an empty sample.
C11_EmptyDecoySampleRejected ==
    (ret # None /\ args.values = <<>>) =>
        \/ ~ValueOf(ret).ok
        \/ (~IsNaN(ValueOf(ret).mu) /\ ~IsNaN(ValueOf(ret).nu.root_of))

\* For a sample of two or more values the mean and the standard deviation are
\* numbers, the mean lies between the smallest and the largest value, and the
\* standard deviation is zero exactly when all values are equal.
C11_NumbersFromTwoValuesOn ==
    (ret # None /\ Len(args.values) >= 2) =>
        LET r == ValueOf(ret) IN
        /\ r.ok /\ IsNumber(r.mu) /\ IsNumber(r.nu.root_of)
        /\ \E i \in DOMAIN args.values : RatLe(Rat(args.values[i], 1), r.mu)
        /\ \E i \in DOMAIN args.values : RatLe(r.mu, Rat(args.values[i], 1))
        /\ (r.nu.root_of.n = 0) <=> (\A i, j \in DOMAIN args.values : args.values[i] = args.values[j])

(***************************************************************************)
(* Float arithmetic with nan and the infinities.  The operands of RatSub   *)
(* are never both infinite.                                                *)
(***************************************************************************)
NaN == Rat(0, 0)

RatMul(a, b) ==
    IF IsNaN(a) \/ IsNaN(b) THEN NaN ELSE RatNorm(Rat(a.n * b.n, a.d * b.d))

RatSub(a, b) ==
    IF IsNaN(a) \/ IsNaN(b) THEN NaN ELSE RatNorm(Rat(a.n * b.d - b.n * a.d, a.d * b.d))

RatDiv(a, b) ==
    IF IsNaN(a) \/ IsNaN(b) THEN NaN ELSE RatNorm(Rat(a.n * b.d, a.d * b.n))

RatInt(i) == Rat(i, 1)

\* a <= b for two values that are not nan
ExtLe(a, b) == IF a.d = 0 /\ b.d = 0 THEN a.n <= b.n ELSE a.n * b.d <= b.n * a.d

Reverse(s) == [i \in DOMAIN s |-> s[Len(s) + 1 - i]]

(***************************************************************************)
(* Python objects: a pandas DataFrame (its columns are also attributes)    *)
(* and the namedtuple ErrorStatistics(df, num_null, num_total).            *)
(***************************************************************************)
\* pd.DataFrame({...}): rows[i][c] is the entry of column c in row i (0-based i - 1)
DataFrame(columns, rows) == [kind |-> "DataFrame", columns |-> columns, rows |-> rows]

\* ErrorStatistics = namedtuple("ErrorStatistics", "df num_null num_total")
ErrorStatistics(df, num_null, num_total) ==
    [kind |-> "ErrorStatistics", df |-> df, num_null |-> num_null, num_total |-> num_total]

\* whether obj.<name> is defined: a DataFrame has its columns as attributes, an
\* ErrorStatistics its three fields; any other name raises AttributeError
hasattr(obj, name) ==
    IF obj.kind = "DataFrame" THEN name \in obj.columns
    ELSE name \in {"df", "num_null", "num_total"}

\* df.<column>.values
column(df, c) == [i \in DOMAIN df.rows |-> df.rows[i][c]]

\* df.loc[:, columns]
loc_columns(df, columns) ==
    DataFrame(columns, [i \in DOMAIN df.rows |-> [c \in columns |-> df.rows[i][c]]])

\* df.iloc[ix]: the rows at the 0-based positions ix
iloc(df, ix) == DataFrame(df.columns, [j \in DOMAIN ix |-> df.rows[ix[j] + 1]])

(***************************************************************************)
(* error_statistics.  A p-value is Rat(k, PDen) or nan; scores are         *)
(* integers.                                                               *)
(***************************************************************************)
\* the positions of the finite entries (rm_na = np.isfinite(p)), ascending
finite_positions(p) == SelectSeq([i \in DOMAIN p |-> i], LAMBDA i : IsNumber(p[i]))

\* p[rm_na], as numerators over PDen
finite_part(p) == LET idx == finite_positions(p) IN [j \in DOMAIN idx |-> p[idx[j]].n]

\* 1.0 - pnorm(target_scores, mu, nu).  The normal distribution function is
\* left open: one_minus_pnorm[x] stands for 1 - Phi((x - mu) / nu) of a score x
\* when mu and nu are numbers and nu > 0.  Dividing by nu = 0 gives +-inf or
\* nan, and erf(+-inf) = +-1.
parametric_pvalues(target_scores, mu, nu, one_minus_pnorm) ==
    [i \in DOMAIN target_scores |->
        LET x == target_scores[i] IN
        IF ~IsNumber(mu) \/ ~IsNumber(nu.root_of) THEN NaN
        ELSE IF nu.root_of.n = 0
        THEN IF x * mu.d > mu.n THEN Rat(0, PDen)
             ELSE IF x * mu.d < mu.n THEN Rat(PDen, PDen)
             ELSE NaN
        ELSE Rat(one_minus_pnorm[x], PDen)]

\* pemp(target_scores, decoy_scores) as p-values: value/m0 over PDen
empirical_pvalues(target_scores, decoy_scores) ==
    LET r == pemp(target_scores, decoy_scores) IN
    IF ~r.ok THEN r
    ELSE [ok |-> TRUE,
          value |-> [i \in DOMAIN r.value |-> Rat((r.value[i] * PDen) \div r.m0, PDen)]]

\* np.sort(p)[::-1]: np.sort puts nan last, so the reversed array starts with them
sort_descending(p) ==
    LET fin == Reverse(SortAscending(finite_part(p)))
        nans == Len(p) - Len(fin)
    IN [i \in DOMAIN p |-> IF i <= nans THEN NaN ELSE Rat(fin[i - nans], PDen)]

\* pi0est(target_pvalues, lambda_, ...): p = p[np.isfinite(p)], and min(p) of
\* an empty array raises ValueError
pi0est_of_array(p, lambda_, pi0_method, spline_last, argmin_mse) ==
    IF finite_part(p) = <<>> THEN Raise("ValueError")
    ELSE pi0est(finite_part(p), lambda_, pi0_method, spline_last, argmin_mse)

\* A variant of qvalue_of_array that returns the q-values in a new array and
\* leaves the caller's array as it was.
qvalue_of_array_copying(p, pi0, pfdr) ==
    IF finite_part(p) = <<>> THEN Raise("ValueError")
    ELSE LET r == qvalue(finite_part(p), pi0, pfdr)
             idx == finite_positions(p)
             pos(i) == CHOOSE j \in DOMAIN idx : idx[j] = i
         IN IF ~r.ok THEN r
            ELSE [ok |-> TRUE,
                  value |-> [i \in DOMAIN p |-> IF IsNumber(p[i]) THEN RatNorm(r.value[pos(i)])
                                                 ELSE p[i]],
                  p_after |-> p]

\* qvalue(p, pi0, pfdr) for an array that may hold nan: qvals_out = p is the
\* caller's array, p = p[rm_na] a copy of its finite part, and
\* qvals_out[rm_na] = qvals writes the q-values into the caller's array, which
\* is also what is returned
qvalue_of_array(p, pi0, pfdr) ==
    IF finite_part(p) = <<>> THEN Raise("ValueError")
    ELSE LET r == qvalue(finite_part(p), pi0, pfdr)
             idx == finite_positions(p)
             pos(i) == CHOOSE j \in DOMAIN idx : idx[j] = i
             qvals_out == [i \in DOMAIN p |-> IF IsNumber(p[i]) THEN RatNorm(r.p_after[pos(i)])
                                               ELSE p[i]]
         IN IF ~r.ok THEN r
            ELSE [ok |-> TRUE, value |-> qvals_out, p_after |-> qvals_out]

\* Series.cummax(): the running maximum; a nan entry stays nan and is skipped
RECURSIVE cummax_from(_, _)
cummax_from(s, acc) ==
    IF s = <<>> THEN <<>>
    ELSE LET x == Head(s) IN
         IF IsNaN(x) THEN <<x>> \o cummax_from(Tail(s), acc)
         ELSE LET best == IF acc = None \/ ExtLe(ValueOf(acc), x) THEN x ELSE ValueOf(acc)
              IN <<best>> \o cummax_from(Tail(s), Some(best))

cummax(s) == cummax_from(s, None)

\* lfdr(p_values, pi0, ...) with a supported transformation.  It works on a
\* copy of p_values.  The kernel density estimate is left open: lfdr_values
\* stands for the local FDR of the rows.
lfdr(p_values, pi0, lfdr_values) ==
    LET fin == finite_positions(p_values) IN
    IF fin = <<>> THEN Raise("ValueError")        \* min() of an empty array
    ELSE IF \E i \in DOMAIN p_values :
                IsNumber(p_values[i])
                /\ (p_values[i].n < 0 \/ p_values[i].n > p_values[i].d)
    THEN Raise("SystemExit")                      \* p-values not in valid range [0,1]
    ELSE IF pi0.n < 0 \/ pi0.n > pi0.d
    THEN Raise("SystemExit")                      \* pi0 not in valid range [0,1]
    ELSE IF Len(fin) < 2
    THEN Raise("SystemExit")                      \* bw_nrd0: at least two data points
    ELSE [ok |-> TRUE,
          value |-> [i \in DOMAIN p_values |->
                        IF IsNumber(p_values[i]) THEN lfdr_values[i] ELSE p_values[i]]]

ErrorTableColumns ==
    {"cutoff", "pvalue", "qvalue", "svalue", "tp", "fp", "tn", "fn", "fpr", "fdr", "fnr"}

\* the entries of one row that lines 492-500 and 508 derive from the row's entry
\* p of target_pvalues
error_counts(p, pi0, num_total, num_positives) ==
    LET num_negatives == num_total - num_positives
        num_null == RatMul(pi0, RatInt(num_total))
    IN [tp |-> RatSub(RatInt(num_positives), RatMul(num_null, p)),
        fp |-> RatMul(num_null, p),
        tn |-> RatMul(num_null, RatSub(RatOne, p)),
        fn |-> RatSub(RatInt(num_negatives), RatMul(num_null, RatSub(RatOne, p))),
        fpr |-> RatDiv(RatMul(num_null, p), num_null),
        fdr |-> RatDiv(RatMul(num_null, p), RatInt(num_positives)),
        fnr |-> RatDiv(RatSub(RatInt(num_negatives), RatMul(num_null, RatSub(RatOne, p))),
                       RatInt(num_negatives)),
        sens |-> RatDiv(RatSub(RatInt(num_positives), RatMul(num_null, p)),
                        RatSub(RatInt(num_total), num_null))]

\* A variant of reverse_cummax without the reversals: the running maximum from
\* the first row on.
forward_cummax(sens) == cummax(sens)

\* pd.Series(sens)[::-1].cummax()[::-1]
reverse_cummax(sens) == Reverse(cummax(Reverse(sens)))

\* error_stat = pd.DataFrame({...})
error_table(target_scores, target_pvalues, target_qvalues, counts, target_svalues) ==
    DataFrame(ErrorTableColumns,
              [i \in DOMAIN target_pvalues |->
                  [cutoff |-> RatInt(target_scores[i]), pvalue |-> target_pvalues[i],
                   qvalue |-> target_qvalues[i], svalue |-> target_svalues[i],
                   tp |-> counts[i].tp, fp |-> counts[i].fp, tn |-> counts[i].tn,
                   fn |-> counts[i].fn, fpr |-> counts[i].fpr, fdr |-> counts[i].fdr,
                   fnr |-> counts[i].fnr]])

\* error_stat['pep'] = lfdr(...)
with_pep(error_stat, pep) ==
    DataFrame(error_stat.columns \cup {"pep"},
              [i \in DOMAIN error_stat.rows |->
                  [c \in error_stat.columns \cup {"pep"} |->
                      IF c = "pep" THEN pep[i] ELSE error_stat.rows[i][c]]])

\* lines 515-519, with pep what lfdr returned
error_statistics_pep(error_stat, pi0, pep, locals) ==
    IF ~pep.ok THEN pep
    ELSE [ok |-> TRUE, error_stat |-> with_pep(error_stat, pep.value), pi0 |-> pi0,
          locals |-> locals]

\* lines 513-519
error_statistics_return(error_stat, target_pvalues, pi0, compute_lfdr, lfdr_values, locals) ==
    IF compute_lfdr
    THEN error_statistics_pep(error_stat, pi0, lfdr(target_pvalues, pi0, lfdr_values), locals)
    ELSE [ok |-> TRUE, error_stat |-> error_stat, pi0 |-> pi0, locals |-> locals]

\* lines 488-519, with target_pvalues the array handed to qvalue as it is after
\* the call
error_statistics_table(target_scores, target_pvalues, target_qvalues, pi0, use_pfdr, compute_lfdr, counts, lfdr_values, locals) ==
    IF use_pfdr
    THEN Raise("NameError")     \* fnr /= 1.0 - p_values ** num_total: p_values is not defined
    ELSE error_statistics_return(
             error_table(target_scores, target_pvalues, target_qvalues, counts,
                         reverse_cummax([i \in DOMAIN counts |-> counts[i].sens])),
             target_pvalues, pi0, compute_lfdr, lfdr_values,
             [locals EXCEPT !.sens = [i \in DOMAIN counts |-> counts[i].sens]])

\* lines 486-519
error_statistics_qvalues(target_scores, q, pi0, use_pfdr, compute_lfdr, num_positives, lfdr_values, locals) ==
    IF ~q.ok THEN q
    ELSE error_statistics_table(
             target_scores, q.p_after, q.value, pi0, use_pfdr, compute_lfdr,
             [i \in DOMAIN q.p_after |->
                 error_counts(q.p_after[i], pi0, Len(q.p_after), num_positives)],
             lfdr_values, locals)

\* lines 485-519
error_statistics_pi0(target_scores, target_pvalues, pi0, use_pfdr, compute_lfdr, num_positives, lfdr_values, locals) ==
    IF ~pi0.ok THEN pi0
    ELSE error_statistics_qvalues(
             target_scores, qvalue_of_array(target_pvalues, RatNorm(pi0.pi0), use_pfdr),
             RatNorm(pi0.pi0), use_pfdr, compute_lfdr, num_positives, lfdr_values, locals)

\* lines 483-519
error_statistics_pvalues(target_scores, computed, lambda_, pi0_method, use_pfdr, compute_lfdr, num_positives, lfdr_values, locals) ==
    IF ~computed.ok THEN computed
    ELSE error_statistics_pi0(
             target_scores, sort_descending(computed.value),
             pi0est_of_array(sort_descending(computed.value), lambda_, pi0_method, RatOne, 1),
             use_pfdr, compute_lfdr, num_positives, lfdr_values,
             [locals EXCEPT !.computed_pvalues = sort_descending(computed.value)])

\* lines 474-519
error_statistics_sorted(target_scores, decoy_scores, ms, lambda_, pi0_method, use_pemp, use_pfdr, compute_lfdr, one_minus_pnorm, num_positives, lfdr_values) ==
    error_statistics_pvalues(
        target_scores,
        IF use_pemp THEN empirical_pvalues(target_scores, decoy_scores)
        ELSE [ok |-> TRUE,
              value |-> parametric_pvalues(target_scores, ms.mu, ms.nu, one_minus_pnorm)],
        lambda_, pi0_method, use_pfdr, compute_lfdr, num_positives, lfdr_values,
        [computed_pvalues |-> <<>>, sens |-> <<>>, mu |-> ms.mu, nu |-> ms.nu,
         num_positives |-> num_positives])

\* error_statistics(target_scores, decoy_scores, lambda_, pi0_method, ...,
\* use_pemp, use_pfdr, compute_lfdr, ...).  num_positives stands for what
\* optimized.count_num_positives returns.  Next to what the function returns,
\* locals holds the p-values as computed at line 483 and the series sens.
error_statistics(target_scores, decoy_scores, lambda_, pi0_method, use_pemp, use_pfdr, compute_lfdr, one_minus_pnorm, num_positives, lfdr_values) ==
    error_statistics_sorted(SortAscending(target_scores), decoy_scores,
                            mean_and_std_dev(decoy_scores), lambda_, pi0_method, use_pemp,
                            use_pfdr, compute_lfdr, one_minus_pnorm, num_positives,
                            lfdr_values)

ErrScoreValues == 0..1

\* non-increasing maps from a score to 1 - Phi as a multiple of 1/PDen
OneMinusPnorm ==
    {f \in [ErrScoreValues -> {0, PDen - 1, PDen}] :
        \A x, y \in ErrScoreValues : x <= y => f[x] >= f[y]}

\* the single-point lambda grid of the model
ErrLambdas == {[kind |-> "float", v |-> <<1>>]}

\* an empirical p-value k/m0 is a multiple of 1/PDen
OnGrid(m0) == IF m0 = 0 THEN TRUE ELSE PDen % m0 = 0

\* one_minus_pnorm and num_positives are what the normal distribution function and
\* optimized.count_num_positives return for these arguments
ErrStatInit ==
    /\ LearnIdle
    /\ ScorerIdle
    /\ num_processes = 1
    /\ fn = "error_statistics"
    /\ args \in [target_scores : SeqsUpTo(ErrScoreValues, 0, MaxPValues),
                 decoy_scores : {d \in SeqsUpTo(ErrScoreValues, 0, MaxDecoys) : IsSorted(d)},
                 lambda_ : ErrLambdas, use_pemp : BOOLEAN, use_pfdr : BOOLEAN,
                 one_minus_pnorm : OneMinusPnorm, num_positives : 0..MaxPValues]
    /\ args.use_pemp => OnGrid(Len(args.decoy_scores))
    /\ args.use_pemp => \A x \in ErrScoreValues : args.one_minus_pnorm[x] = 0
    /\ args.num_positives <= Len(args.target_scores)
    /\ ret = None

ErrStatCall ==
    /\ fn = "error_statistics"
    /\ ret = None
    /\ ret' = Some(error_statistics(args.target_scores, args.decoy_scores, args.lambda_,
                                    "smoother", args.use_pemp, args.use_pfdr, FALSE,
                                    args.one_minus_pnorm, args.num_positives, <<>>))
    /\ UNCHANGED <<learn_vars, scorer_vars, fn, args>>

SpecErrStat == ErrStatInit /\ [][ErrStatCall]_vars

\* the rows of the returned error table
ErrRows == ValueOf(ret).error_stat.rows

\* C15: in the error table error_statistics returns, the pvalue entry of every
\* row is the target p-value computed for that row, the rows run in descending
\* order of p-value, and fp is the null count times that p-value: computing the
\* q-values has left the p-values as they were.
C15_PvalueColumnHoldsPvalues ==
    (ret # None /\ ValueOf(ret).ok) =>
        LET computed == ValueOf(ret).locals.computed_pvalues
            num_null == RatMul(ValueOf(ret).pi0, RatInt(Len(ErrRows)))
        IN \A i \in DOMAIN ErrRows :
            /\ RatNorm(ErrRows[i].pvalue) = RatNorm(computed[i])
            /\ ErrRows[i].fp = RatMul(num_null, RatNorm(computed[i]))
            /\ \A j \in DOMAIN ErrRows :
                 (i < j /\ IsNumber(ErrRows[i].pvalue) /\ IsNumber(ErrRows[j].pvalue))
                    => RatLe(ErrRows[j].pvalue, ErrRows[i].pvalue)

\* What the table holds instead: the pvalue entry of every row is the row's
\* q-value, and the rows were ordered by the computed p-values.
C15_PvalueColumnHoldsQvalues ==
    (ret # None /\ ValueOf(ret).ok) =>
        LET computed == ValueOf(ret).locals.computed_pvalues IN
        \A i \in DOMAIN ErrRows :
            /\ ErrRows[i].pvalue = ErrRows[i].qvalue
            /\ \A j \in DOMAIN ErrRows :
                 (i < j /\ IsNumber(computed[i]) /\ IsNumber(computed[j]))
                    => computed[j].n <= computed[i].n

\* the raw sensitivity series tp / (num_total - num_null) of the returned table
ErrSens == ValueOf(ret).locals.sens

\* C17 as stated: for every row i, svalue[i] is the maximum of sens[j] over the
\* rows j >= i, so svalue[i] >= sens[i] and svalue never increases down the rows.
C17_SvalueIsReverseCummax ==
    (ret # None /\ ValueOf(ret).ok) =>
        \A i \in DOMAIN ErrRows :
            LET s == ErrRows[i].svalue IN
            /\ ~IsNaN(s)
            /\ \E j \in i..Len(ErrRows) : s = ErrSens[j]
            /\ \A j \in i..Len(ErrRows) : ~IsNaN(ErrSens[j]) /\ ExtLe(ErrSens[j], s)
            /\ \A j \in i..Len(ErrRows) : ExtLe(ErrRows[j].svalue, s)

\* C17 amended: a row whose sensitivity is nan has svalue nan; for every other
\* row i, svalue[i] is the maximum of the sens[j] that are not nan over the rows
\* j >= i, so svalue[i] >= sens[i], and svalue never increases down these rows.
C17_SvalueIsReverseCummaxOfNumbers ==
    (ret # None /\ ValueOf(ret).ok) =>
        \A i \in DOMAIN ErrRows :
            LET s == ErrRows[i].svalue IN
            IF IsNaN(ErrSens[i]) THEN IsNaN(s)
            ELSE /\ ~IsNaN(s)
                 /\ \E j \in i..Len(ErrRows) : s = ErrSens[j]
                 /\ \A j \in i..Len(ErrRows) : ~IsNaN(ErrSens[j]) => ExtLe(ErrSens[j], s)
                 /\ \A j \in i..Len(ErrRows) :
                      ~IsNaN(ErrRows[j].svalue) => ExtLe(ErrRows[j].svalue, s)

\* a table of numbers whose svalue column lies above the sensitivity in one row
C17_Witness ==
    /\ ret # None
    /\ ValueOf(ret).ok
    /\ \A i \in DOMAIN ErrRows : IsNumber(ErrSens[i])
    /\ \E i \in DOMAIN ErrRows :
         ErrRows[i].svalue # ErrSens[i] /\ ExtLe(ErrSens[i], ErrRows[i].svalue)

\* a table with a row whose sensitivity is nan below a row whose sensitivity is not
C17_WitnessNaN ==
    /\ ret # None
    /\ ValueOf(ret).ok
    /\ \E i, j \in DOMAIN ErrRows : IsNaN(ErrSens[i]) /\ ~IsNaN(ErrSens[j])

\* the arguments with which the call makes sense: two or more targets, and two
\* or more decoys that are not all equal
ErrValidInput ==
    /\ Len(args.target_scores) >= 2
    /\ Len(args.decoy_scores) >= 2
    /\ \E i, j \in DOMAIN args.decoy_scores : args.decoy_scores[i] # args.decoy_scores[j]

\* the same call with use_pfdr unset
ErrOutcomeWithoutPfdr ==
    error_statistics(args.target_scores, args.decoy_scores, args.lambda_, "smoother",
                     args.use_pemp, FALSE, FALSE, args.one_minus_pnorm, args.num_positives,
                     <<>>)

\* C18: with use_pfdr set, error_statistics completes and returns an error
\* table and pi0 for every valid input for which it does so with use_pfdr unset.
C18_PfdrModeCompletes ==
    (ret # None /\ args.use_pfdr /\ ErrValidInput /\ ErrOutcomeWithoutPfdr.ok) =>
        /\ ValueOf(ret).ok
        /\ Len(ValueOf(ret).error_stat.rows) = Len(args.target_scores)

\* With use_pfdr set no call returns: each ends in an error.
C18_PfdrModeNeverCompletes ==
    (ret # None /\ args.use_pfdr) => ~ValueOf(ret).ok

(***************************************************************************)
(* Scorer.  The table handed to the program has the columns RawColumns;    *)
(* the classifier is a linear discriminant with one weight for the one     *)
(* score column.  A d_score (score - mu) / nu is kept as an integer number *)
(* of the scorer's unit 1 / (mu.d * nu), for nu a positive number: the     *)
(* values of one scorer compare, and lie apart, as these integers do.      *)
(***************************************************************************)
RawColumns == {"transition_group_id", "decoy", "main_var_score"}

\* data_handling.prepare_data_table(table, ...): the table with the normalised
\* column names, row for row, and the score columns found
prepare_data_table(table) ==
    [prepared_table |->
        DataFrame({"tg_id", "is_decoy", "main_score"},
                  [i \in DOMAIN table.rows |->
                      [tg_id |-> table.rows[i].transition_group_id,
                       is_decoy |-> table.rows[i].decoy,
                       main_score |-> table.rows[i].main_var_score]]),
     score_columns |-> <<"main_score">>]

\* data_handling.Experiment(prepared_table)
Experiment(prepared_table) == prepared_table

\* classifier.score(experiment, True): the weighted score column
classifier_score(classifier, experiment) ==
    [i \in DOMAIN experiment.rows |-> classifier.w * experiment.rows[i].main_score]

\* whether row i is the top peak of its group under the scores: the largest
\* score of the group, the first such row on a tie
is_top_peak(experiment, score, i) ==
    \A j \in DOMAIN experiment.rows :
        experiment.rows[j].tg_id = experiment.rows[i].tg_id =>
            \/ score[j] < score[i]
            \/ (score[j] = score[i] /\ i <= j)

\* the positions of the rows of experiment.get_top_decoy_peaks() (is_decoy) and
\* experiment.get_top_target_peaks() (~is_decoy), in row order
top_peaks(experiment, score, is_decoy) ==
    SelectSeq([i \in DOMAIN experiment.rows |-> i],
              LAMBDA i : experiment.rows[i].is_decoy = is_decoy
                         /\ is_top_peak(experiment, score, i))

\* the positions of the rows with experiment.df.is_decoy.eq(is_decoy)
rows_with(experiment, is_decoy) ==
    SelectSeq([i \in DOMAIN experiment.rows |-> i],
              LAMBDA i : experiment.rows[i].is_decoy = is_decoy)

\* values[positions]
take(values, positions) == [j \in DOMAIN positions |-> values[positions[j]]]

calculate_params_for_d_score(classifier, experiment) ==
    mean_and_std_dev(take(classifier_score(classifier, experiment),
                          top_peaks(experiment, classifier_score(classifier, experiment),
                                    TRUE)))

\* (score - mu) / nu in units of 1 / (mu.d * nu)
d_score(score, mu, nu) == [i \in DOMAIN score |-> score[i] * mu.d - mu.n]

\* texp.add_peak_group_rank(): the rank of a row within its group by descending
\* d_score, 1 for the best, earlier rows first among equals
peak_group_rank(experiment, d, i) ==
    1 + Cardinality({j \in DOMAIN experiment.rows :
                        /\ experiment.rows[j].tg_id = experiment.rows[i].tg_id
                        /\ (d[j] > d[i] \/ (d[j] = d[i] /\ j < i))})

\* CONFIG.get(key)
CONFIG_get(config, key) == config[key]

\* lookup_values_from_error_table(scores, err_df): err_df.cutoff is an attribute
\* of a DataFrame with that column only; the cutoffs are whole d_score units
lookup_values_from_nearest(err_df, ix) ==
    IF ~ix.ok THEN ix
    ELSE [ok |-> TRUE,
          p_values |-> column(iloc(err_df, ix.value), "pvalue"),
          s_values |-> column(iloc(err_df, ix.value), "svalue"),
          peps |-> column(iloc(err_df, ix.value), "pep"),
          q_values |-> column(iloc(err_df, ix.value), "qvalue")]

lookup_values_from_error_table(scores, err_df, procs) ==
    IF \E c \in {"cutoff", "pvalue", "svalue", "pep", "qvalue"} : ~hasattr(err_df, c)
    THEN Raise("AttributeError")
    ELSE lookup_values_from_nearest(
             err_df,
             find_nearest_matches([i \in DOMAIN err_df.rows |-> err_df.rows[i].cutoff.n],
                                  scores, procs))

\* the fields Scorer.__init__ sets, with d the d_score column of the experiment
\* and es what error_statistics returned
Scorer_fields(classifier, score_columns, experiment, merge_results, ms, d, es) ==
    IF ~es.ok THEN es
    ELSE [ok |-> TRUE,
          self |-> [classifier |-> classifier,
                    score_columns |-> score_columns,
                    mu |-> ms.mu,
                    nu |-> ms.nu,
                    merge_results |-> merge_results,
                    error_stat |-> es.error_stat,
                    pi0 |-> es.pi0,
                    number_target_pg |-> Len(rows_with(experiment, FALSE)),
                    number_target_peaks |-> Len(top_peaks(experiment, d, FALSE)),
                    dvals |-> take(d, rows_with(experiment, TRUE)),
                    target_scores |-> take(d, top_peaks(experiment, d, FALSE)),
                    decoy_scores |-> take(d, top_peaks(experiment, d, TRUE))]]

\* Scorer.__init__ from experiment["d_score"] = ... on; lib holds what the normal
\* distribution function, optimized.count_num_positives and the density
\* estimate of lfdr return
Scorer_init_d_score(classifier, score_columns, experiment, merge_results, config, lib, ms, d) ==
    Scorer_fields(classifier, score_columns, experiment, merge_results, ms, d,
                  error_statistics(take(d, top_peaks(experiment, d, FALSE)),
                                   take(d, top_peaks(experiment, d, TRUE)),
                                   CONFIG_get(config, "final_statistics.lambda"),
                                   CONFIG_get(config, "final_statistics.pi0_method"),
                                   CONFIG_get(config, "final_statistics.emp_p"),
                                   CONFIG_get(config, "final_statistics.pfdr"),
                                   TRUE, lib.one_minus_pnorm, lib.num_positives,
                                   lib.lfdr_values))

Scorer_init_params(classifier, score_columns, experiment, merge_results, config, lib, ms) ==
    Scorer_init_d_score(classifier, score_columns, experiment, merge_results, config, lib, ms,
                        d_score(classifier_score(classifier, experiment), ms.mu, ms.nu))

\* Scorer(classifier, score_columns, experiment, all_test_target_scores,
\* all_test_decoy_scores, merge_results): the two score lists are not used
Scorer(classifier, score_columns, experiment, merge_results, config, lib) ==
    Scorer_init_params(classifier, score_columns, experiment, merge_results, config, lib,
                       calculate_params_for_d_score(classifier, experiment))

\* |a - b| of two numbers
RatAbsDiff(a, b) == IF RatLe(a, b) THEN RatSub(b, a) ELSE RatSub(a, b)

\* (error_stat.qvalue - fdr).abs().argmin(): the first row with the least
\* distance, rows without a number skipped
argmin_abs_diff(qvalues, fdr) ==
    CHOOSE i \in DOMAIN qvalues :
        /\ IsNumber(qvalues[i])
        /\ \A j \in DOMAIN qvalues :
               IsNumber(qvalues[j]) =>
                   \/ RatLt(RatAbsDiff(qvalues[i], fdr), RatAbsDiff(qvalues[j], fdr))
                   \/ (RatEq(RatAbsDiff(qvalues[i], fdr), RatAbsDiff(qvalues[j], fdr))
                       /\ i <= j)

find_cutoff_in(es, fdr) ==
    IF ~es.ok THEN es
    ELSE IF es.error_stat.rows = <<>>
    THEN Raise("Exception")      \* to little data for calculating error statistcs
    ELSE IF \A i \in DOMAIN es.error_stat.rows : ~IsNumber(es.error_stat.rows[i].qvalue)
    THEN Raise("ValueError")     \* argmin of a series of nan only
    ELSE [ok |-> TRUE,
          cutoff |-> es.error_stat.rows[
                         argmin_abs_diff(column(es.error_stat, "qvalue"), fdr)].cutoff]

\* find_cutoff(target_scores, decoy_scores, fdr, lambda_, pi0_method, ...,
\* use_pemp, use_pfdr)
find_cutoff(target_scores, decoy_scores, fdr, lambda_, pi0_method, use_pemp, use_pfdr, lib) ==
    find_cutoff_in(error_statistics(target_scores, decoy_scores, lambda_, pi0_method,
                                    use_pemp, use_pfdr, FALSE, lib.one_minus_pnorm,
                                    Min(lib.num_positives, Len(target_scores)), <<>>),
                   fdr)

\* posterior_pg_prob from "Bayesian inference" on.  The normal densities are left
\* open: a posterior is kept as the quantities it is computed from.
posterior_pg_prob_bayes(dvals, target_scores_above, prior_peakgroup_true, given_scores) ==
    [ok |-> TRUE,
     value |-> [i \in DOMAIN given_scores |->
                   [given_score |-> given_scores[i],
                    decoy_distribution |-> mean_and_std_dev(dvals),
                    target_distribution |-> mean_and_std_dev(target_scores_above),
                    prior_peakgroup_true |-> prior_peakgroup_true]]]

posterior_pg_prob_cutoff(dvals, target_scores, prior_peakgroup_true, given_scores, estimated_cutoff) ==
    IF ~estimated_cutoff.ok THEN estimated_cutoff
    ELSE posterior_pg_prob_bayes(
             dvals,
             SelectSeq(target_scores,
                       LAMBDA x : RatLt(estimated_cutoff.cutoff, RatInt(x))),
             prior_peakgroup_true, given_scores)

\* posterior_pg_prob from prior_chrom_null = ... on
posterior_pg_prob_prior(dvals, target_scores, decoy_scores, prior_chrom_null, number_target_peaks, number_target_pg, given_scores, lambda_, config, lib) ==
    posterior_pg_prob_cutoff(
        dvals, target_scores,
        RatDiv(RatMul(RatSub(RatOne, prior_chrom_null), RatInt(number_target_peaks)),
               RatInt(number_target_pg)),
        given_scores,
        find_cutoff(target_scores, decoy_scores, Rat(15, 100), lambda_,
                    CONFIG_get(config, "final_statistics.pi0_method"),
                    CONFIG_get(config, "final_statistics.use_pemp"),
                    CONFIG_get(config, "final_statistics.use_pfdr"), lib))

\* posterior_pg_prob(dvals, target_scores, decoy_scores, error_stat, ...): the
\* first statement formats error_stat.num_null and error_stat.num_total
posterior_pg_prob(dvals, target_scores, decoy_scores, error_stat, number_target_peaks, number_target_pg, given_scores, lambda_, config, lib) ==
    IF ~hasattr(error_stat, "num_null") \/ ~hasattr(error_stat, "num_total")
    THEN Raise("AttributeError")
    ELSE posterior_pg_prob_prior(dvals, target_scores, decoy_scores,
                                 RatDiv(error_stat.num_null, error_stat.num_total),
                                 number_target_peaks, number_target_pg, given_scores,
                                 lambda_, config, lib)

\* df.join(other): the rows side by side
join(df, other) ==
    DataFrame(df.columns \cup other.columns,
              [i \in DOMAIN df.rows |->
                  [c \in df.columns \cup other.columns |->
                      IF c \in df.columns THEN df.rows[i][c] ELSE other.rows[i][c]]])

\* df[name] = values for each name of the record new
with_columns(df, new) ==
    DataFrame(df.columns \cup DOMAIN new,
              [i \in DOMAIN df.rows |->
                  [c \in df.columns \cup DOMAIN new |->
                      IF c \in DOMAIN new THEN new[c][i] ELSE df.rows[i][c]]])

\* add_probabilities from texp.df["pg_score"] = ... on.  The hypothesis
\* probabilities of a row are kept as the application of
\* posterior_chromatogram_hypotheses_fast they come from.
add_probabilities_joined(scored, texp, pp_pg_pvalues, prior_chrom_null) ==
    IF ~pp_pg_pvalues.ok THEN pp_pg_pvalues
    ELSE [ok |-> TRUE,
          value |-> join(scored,
                         with_columns(
                             DataFrame({}, [i \in DOMAIN texp.rows |-> <<>>]),
                             [pg_score |-> pp_pg_pvalues.value,
                              h_score |-> [i \in DOMAIN texp.rows |->
                                              [hypotheses_of |-> column(texp, "tg_id"),
                                               pg_score |-> pp_pg_pvalues.value,
                                               prior_chrom_null |-> prior_chrom_null,
                                               row |-> i]],
                              h0_score |-> [i \in DOMAIN texp.rows |->
                                               [h0_of |-> column(texp, "tg_id"),
                                                pg_score |-> pp_pg_pvalues.value,
                                                prior_chrom_null |-> prior_chrom_null,
                                                row |-> i]]]))]

\* A variant of add_probabilities that reads no attribute of self.error_stat and
\* takes one half for the null prior.
add_probabilities_with_even_prior(self, scored, texp, config, lib) ==
    add_probabilities_joined(
        scored, texp,
        posterior_pg_prob_prior(self.dvals, self.target_scores, self.decoy_scores,
                                Rat(1, 2), self.number_target_peaks,
                                self.number_target_pg, column(texp, "d_score"),
                                CONFIG_get(config, "final_statistics.lambda"), config, lib),
        Rat(1, 2))

\* Scorer.add_probabilities(scored_table, texp)
add_probabilities(self, scored, texp, config, lib) ==
    IF ~hasattr(self.error_stat, "num_null") \/ ~hasattr(self.error_stat, "num_total")
    THEN Raise("AttributeError")     \* raised by posterior_pg_prob
    ELSE add_probabilities_joined(
             scored, texp,
             posterior_pg_prob(self.dvals, self.target_scores, self.decoy_scores,
                               self.error_stat, self.number_target_peaks,
                               self.number_target_pg, column(texp, "d_score"),
                               CONFIG_get(config, "final_statistics.lambda"), config, lib),
             RatDiv(self.error_stat.num_null, self.error_stat.num_total))

\* n.startswith(prefix) for the column names of the model
startswith(n, prefix) ==
    \/ prefix = "main_" /\ n \in {"main_var_score", "main_score"}
    \/ prefix = "var_" /\ n \in {}

\* the columns score() joins to the input table
JoinedColumns == {"d_score", "p_value", "pep", "m_score", "peak_group_rank"}

\* score() from "if CONFIG.get("target.compress_results")" on
Scorer_score_compress(df, config) ==
    IF ~df.ok THEN df
    ELSE IF CONFIG_get(config, "target.compress_results")
    THEN [ok |-> TRUE,
          value |-> loc_columns(df.value,
                                {n \in df.value.columns :
                                    ~(startswith(n, "var_") \/ startswith(n, "main_"))})]
    ELSE df

\* score() from df = table.join(...) on
Scorer_score_join(self, table, texp, config, lib) ==
    Scorer_score_compress(
        IF CONFIG_get(config, "compute.probabilities")
        THEN add_probabilities(self, join(table, loc_columns(texp, JoinedColumns)), texp,
                               config, lib)
        ELSE [ok |-> TRUE, value |-> join(table, loc_columns(texp, JoinedColumns))],
        config)

\* score() from texp["pep"] = peps on, with looked what
\* lookup_values_from_error_table returned
Scorer_score_looked(self, table, texp, d, looked, config, lib) ==
    IF ~looked.ok THEN looked
    ELSE Scorer_score_join(
             self, table,
             with_columns(texp,
                          [d_score |-> d,
                           pep |-> looked.peps,
                           m_score |-> looked.q_values,
                           s_value |-> looked.s_values,
                           p_value |-> looked.p_values,
                           peak_group_rank |->
                               [i \in DOMAIN texp.rows |-> peak_group_rank(texp, d, i)]]),
             config, lib)

Scorer_score_d_score(self, table, texp, d, config, lib, procs) ==
    Scorer_score_looked(self, table, texp, d,
                        lookup_values_from_error_table(d, self.error_stat, procs),
                        config, lib)

\* Scorer.score(table)
Scorer_score(self, table, config, lib, procs) ==
    Scorer_score_d_score(
        self, table, Experiment(prepare_data_table(table).prepared_table),
        d_score(classifier_score(self.classifier,
                                 Experiment(prepare_data_table(table).prepared_table)),
                self.mu, self.nu),
        config, lib, procs)

MinimalColumns == {"svalue", "qvalue", "pvalue", "pep", "cutoff"}

\* Scorer.minimal_error_stat()
minimal_error_stat(self) ==
    IF \E a \in {"df", "num_null", "num_total"} : ~hasattr(self.error_stat, a)
    THEN Raise("AttributeError")
    ELSE IF ~(MinimalColumns \subseteq self.error_stat.df.columns)
    THEN Raise("KeyError")
    ELSE [ok |-> TRUE,
          value |-> ErrorStatistics(loc_columns(self.error_stat.df, MinimalColumns),
                                    self.error_stat.num_null, self.error_stat.num_total)]

\* Scorer.__getstate__() with minimal what minimal_error_stat returned: data is
\* vars(self), the dictionary of the object itself, so the assignment to
\* data["error_stat"] is one to self.error_stat.  self is the object afterwards.
getstate_assign(self, minimal) ==
    IF ~minimal.ok THEN [ok |-> FALSE, error |-> minimal.error, self |-> self]
    ELSE [ok |-> TRUE,
          value |-> [self EXCEPT !.error_stat = minimal.value],
          self |-> [self EXCEPT !.error_stat = minimal.value]]

__getstate__(self) == getstate_assign(self, minimal_error_stat(self))

\* Scorer.__setstate__(data): self.__dict__.update(data)
__setstate__(self, data) ==
    [a \in DOMAIN self \cup DOMAIN data |-> IF a \in DOMAIN data THEN data[a] ELSE self[a]]

(***************************************************************************)
(* One scoring pass: _build_result builds the Scorer from the training     *)
(* table, a Scorer is restored from a scorer file or from what             *)
(* __getstate__ returned, and score and __getstate__ are called on both.   *)
(***************************************************************************)
TrainScoreValues == 0..2

\* group and label of the rows of the training table: two target groups, one of
\* two peak groups, and two decoy groups
TrainLayout ==
    <<[transition_group_id |-> "t1", decoy |-> FALSE],
      [transition_group_id |-> "t1", decoy |-> FALSE],
      [transition_group_id |-> "t2", decoy |-> FALSE],
      [transition_group_id |-> "DECOY_d1", decoy |-> TRUE],
      [transition_group_id |-> "DECOY_d2", decoy |-> TRUE]>>

table_of(layout, values) ==
    DataFrame(RawColumns,
              [i \in DOMAIN layout |->
                  [transition_group_id |-> layout[i].transition_group_id,
                   decoy |-> layout[i].decoy,
                   main_var_score |-> values[i]]])

TrainTables == {table_of(TrainLayout, v) : v \in [DOMAIN TrainLayout -> TrainScoreValues]}

\* a table that is not the training table
NewTable ==
    table_of(<<[transition_group_id |-> "n1", decoy |-> FALSE],
               [transition_group_id |-> "n1", decoy |-> FALSE]>>, <<1, 2>>)

Config(emp_p, pfdr, probabilities, compress_results) ==
    [key \in {"final_statistics.lambda", "final_statistics.pi0_method",
              "final_statistics.emp_p", "final_statistics.pfdr",
              "final_statistics.use_pemp", "final_statistics.use_pfdr",
              "compute.probabilities", "target.compress_results"} |->
        CASE key = "final_statistics.lambda" -> CHOOSE l \in ErrLambdas : TRUE
          [] key = "final_statistics.pi0_method" -> "smoother"
          [] key = "final_statistics.emp_p" -> emp_p
          [] key = "final_statistics.pfdr" -> pfdr
          [] key = "final_statistics.use_pemp" -> FALSE
          [] key = "final_statistics.use_pfdr" -> FALSE
          [] key = "compute.probabilities" -> probabilities
          [] key = "target.compress_results" -> compress_results]

\* 1 - Phi of a d_score, as a multiple of 1/PDen, for the d_score units -2..2
\* that the tables of the model give rise to: the decoy d_scores have mean 0 and
\* standard deviation 1
ScorerOneMinusPnorm ==
    [x \in -2..2 |-> IF x < 0 THEN PDen - 1 ELSE IF x = 0 THEN PDen \div 2 ELSE 1]

\* the local FDR values the density estimate yields for the rows
LfdrValues == {[i \in 1..2 |-> Rat(1, 2)]}

\* _setup_experiment(table) and Scorer(...) of _build_result
build_scorer(a) ==
    Scorer(a.classifier, prepare_data_table(a.table).score_columns,
           Experiment(prepare_data_table(a.table).prepared_table), FALSE, a.config, a.lib)

\* what a scorer file holds: the fields of a Scorer, error_stat being the
\* ErrorStatistics of minimal_error_stat
scorer_file(self) ==
    [self EXCEPT !.error_stat =
        ErrorStatistics(loc_columns(self.error_stat, MinimalColumns),
                        RatMul(self.pi0, RatInt(Len(self.error_stat.rows))),
                        RatInt(Len(self.error_stat.rows)))]

\* the scorer files at hand: the one of an earlier pass over the same table
ScorerFiles(a) == IF build_scorer(a).ok THEN {scorer_file(build_scorer(a).self)} ELSE {}

\* the classifier has the weight 2, and the decoy peaks of the training table
\* have the main score 0 and 2, so that mu = 2 and nu is a positive number
ScorerInit ==
    /\ LearnIdle
    /\ ScorerIdle
    /\ num_processes = 1
    /\ fn = "Scorer"
    /\ \E table \in TrainTables, emp_p \in BOOLEAN, pfdr \in BOOLEAN,
          probabilities \in BOOLEAN, compress_results \in BOOLEAN,
          num_positives \in 1..2, lfdr_values \in LfdrValues :
         /\ table.rows[4].main_var_score = 0
         /\ table.rows[5].main_var_score = 2
         /\ emp_p => OnGrid(2)
         /\ args = [table |-> table,
                    classifier |-> [w |-> 2],
                    config |-> Config(emp_p, pfdr, probabilities, compress_results),
                    lib |-> [one_minus_pnorm |-> ScorerOneMinusPnorm,
                             num_positives |-> num_positives,
                             lfdr_values |-> lfdr_values]]
    /\ ret = None

ObjectOf(who) == IF who = "scorer" THEN scorer ELSE loaded_scorer

\* scorer = Scorer(final_classifier, score_columns, experiment, ...)
ScorerNew ==
    /\ fn = "Scorer"
    /\ scorer = None
    /\ scorer' = IF build_scorer(args).ok THEN Some(build_scorer(args).self) ELSE None
    /\ ret' = Some([method |-> "__init__", self |-> "scorer",
                    outcome |-> IF build_scorer(args).ok THEN [ok |-> TRUE]
                                ELSE build_scorer(args)])
    /\ UNCHANGED <<learn_vars, fn, args, getstate_data, loaded_scorer>>

\* unpickling: a new object and __setstate__(data)
ScorerLoad ==
    /\ fn = "Scorer"
    /\ loaded_scorer = None
    /\ \E d \in ScorerFiles(args) \cup getstate_data :
         loaded_scorer' = Some(__setstate__(<<>>, d))
    /\ ret' = Some([method |-> "__setstate__", self |-> "loaded_scorer",
                    outcome |-> [ok |-> TRUE]])
    /\ UNCHANGED <<learn_vars, fn, args, getstate_data, scorer>>

\* scorer.score(table) and loaded_scorer.score(table)
ScorerScore ==
    /\ fn = "Scorer"
    /\ \E who \in {"scorer", "loaded_scorer"}, table \in {args.table, NewTable} :
         /\ ObjectOf(who) # None
         /\ ret' = Some([method |-> "score", self |-> who, table |-> table,
                         outcome |-> Scorer_score(ValueOf(ObjectOf(who)), table,
                                                  args.config, args.lib, num_processes)])
    /\ UNCHANGED <<learn_vars, fn, args, scorer_vars>>

\* pickling: __getstate__()
ScorerGetState ==
    /\ fn = "Scorer"
    /\ \E who \in {"scorer", "loaded_scorer"} :
         /\ ObjectOf(who) # None
         /\ scorer' = IF who = "scorer" THEN Some(__getstate__(ValueOf(scorer)).self)
                      ELSE scorer
         /\ loaded_scorer' = IF who = "loaded_scorer"
                             THEN Some(__getstate__(ValueOf(loaded_scorer)).self)
                             ELSE loaded_scorer
         /\ getstate_data' = IF __getstate__(ValueOf(ObjectOf(who))).ok
                             THEN Some(__getstate__(ValueOf(ObjectOf(who))).value)
                             ELSE getstate_data
         /\ ret' = Some([method |-> "__getstate__", self |-> who,
                         outcome |->
                             IF __getstate__(ValueOf(ObjectOf(who))).ok
                             THEN [ok |-> TRUE,
                                   value |-> __getstate__(ValueOf(ObjectOf(who))).value]
                             ELSE Raise(__getstate__(ValueOf(ObjectOf(who))).error)])
    /\ UNCHANGED <<learn_vars, fn, args>>

ScorerNext == ScorerNew \/ ScorerLoad \/ ScorerScore \/ ScorerGetState

SpecScorer == ScorerInit /\ [][ScorerNext]_vars

\* the outcome of the last call, and whether it was the named method of the
\* named object
LastCall(method, who) ==
    ret # None /\ ValueOf(ret).method = method /\ ValueOf(ret).self = who

LastOutcome == ValueOf(ret).outcome

ProbabilitiesSet == CONFIG_get(args.config, "compute.probabilities")

CompressSet == CONFIG_get(args.config, "target.compress_results")

ScoredOk == LastCall("score", "scorer") /\ LastOutcome.ok

\* the columns of the input table that a compressed result keeps
KeptColumns(table) ==
    IF CompressSet
    THEN {n \in table.columns : ~(startswith(n, "var_") \/ startswith(n, "main_"))}
    ELSE table.columns

\* C12: the table score() returns has the columns of the input table (without
\* the var_ and main_ columns when results are compressed), the columns d_score,
\* p_value, s_value, m_score, pep and peak_group_rank, and also pg_score, h_score
\* and h0_score when probabilities are computed.
C12_ScoreReturnsAllColumns ==
    LastCall("score", "scorer") =>
        /\ LastOutcome.ok
        /\ LastOutcome.value.columns =
               KeptColumns(ValueOf(ret).table)
               \cup {"d_score", "p_value", "s_value", "m_score", "pep", "peak_group_rank"}
               \cup (IF ProbabilitiesSet THEN {"pg_score", "h_score", "h0_score"} ELSE {})

\* What score() of a Scorer built by __init__ does: without probabilities it
\* returns the kept input columns and the five joined columns, s_value not among
\* them, one row for each input row; with probabilities it raises AttributeError.
C12_ScoreReturnsJoinedColumnsOrRaises ==
    LastCall("score", "scorer") =>
        IF ProbabilitiesSet
        THEN ~LastOutcome.ok /\ LastOutcome.error = "AttributeError"
        ELSE /\ LastOutcome.ok
             /\ LastOutcome.value.columns = KeptColumns(ValueOf(ret).table) \cup JoinedColumns
             /\ "s_value" \notin LastOutcome.value.columns
             /\ Len(LastOutcome.value.rows) = Len(ValueOf(ret).table.rows)

\* the d_score and m_score columns of the table a score() call returned
ScoreColumns(outcome) == loc_columns(outcome.value, {"d_score", "m_score"})

\* C13: once __getstate__ has been called on the Scorer built from the training
\* table, the Scorer restored from the returned state by __setstate__ gives, for
\* the training table, the d_score and the m_score of every row that the built
\* Scorer gives.
C13_RoundTripReproducesScores ==
    LastCall("__getstate__", "scorer") =>
        /\ LastOutcome.ok
        /\ Scorer_score(__setstate__(<<>>, LastOutcome.value), args.table, args.config,
                        args.lib, num_processes).ok
        /\ Scorer_score(build_scorer(args).self, args.table, args.config, args.lib,
                        num_processes).ok
        /\ ScoreColumns(Scorer_score(__setstate__(<<>>, LastOutcome.value), args.table,
                                     args.config, args.lib, num_processes))
           = ScoreColumns(Scorer_score(build_scorer(args).self, args.table, args.config,
                                       args.lib, num_processes))

\* What the round trip does: __getstate__ of a Scorer built by __init__ raises
\* AttributeError, and score() of a Scorer restored from a scorer file raises
\* AttributeError.
C13_BuiltScorerIsNotSerializable ==
    /\ LastCall("__getstate__", "scorer") =>
           ~LastOutcome.ok /\ LastOutcome.error = "AttributeError"
    /\ LastCall("score", "loaded_scorer") =>
           ~LastOutcome.ok /\ LastOutcome.error = "AttributeError"

\* the fields of a Scorer that come from the training rows and are not part of
\* the weights, mu, nu and the error table
TrainingDerived ==
    [dvals : {<<-1, 1>>, <<-2, 0, 2>>},
     target_scores : {<<-1, 0>>, <<0, 1, 2>>},
     decoy_scores : {<<-1, 1>>, <<0, 2>>},
     number_target_pg : {3, 4},
     number_target_peaks : {2, 3}]

\* the Scorer self built from other training rows
with_training(self, v) ==
    [self EXCEPT !.dvals = v.dvals, !.target_scores = v.target_scores,
                 !.decoy_scores = v.decoy_scores,
                 !.number_target_pg = v.number_target_pg,
                 !.number_target_peaks = v.number_target_peaks]

C16_GetStateLeavesScorerAndReturnsSubset ==
    LastCall("__getstate__", "scorer") =>
        /\ scorer = Some(build_scorer(args).self)
        /\ ErrorTableColumns \subseteq ValueOf(scorer).error_stat.columns
        /\ LastOutcome.ok
        /\ LastOutcome.value.error_stat.df.columns = MinimalColumns

\* What __getstate__ does: on a Scorer built by __init__ it raises and returns
\* no state, the Scorer staying as built; on a restored Scorer the returned
\* state is the dictionary of the Scorer itself.
C16_ReturnedStateIsTheScorer ==
    /\ LastCall("__getstate__", "scorer") =>
           ~LastOutcome.ok /\ scorer = Some(build_scorer(args).self)
    /\ LastCall("__getstate__", "loaded_scorer") =>
           LastOutcome.ok /\ loaded_scorer = Some(LastOutcome.value)

====
